---- MODULE Spec2Model ----
(***************************************************************************)
(* Event dispatch and real-time delivery of the event-dispatcher service:  *)
(* SocketIOAdapter (the connection registry), DomainEventDispatcher,       *)
(* EventService and the two domain handlers.                               *)
(*                                                                         *)
(* Node runs every callback to completion, so each callback (a segment of  *)
(* an async function between two awaits, a 'connection' or 'disconnect'    *)
(* handler, a public method call) is one atomic action.                    *)
(***************************************************************************)
EXTENDS Integers, Sequences, FiniteSets, TLC

VARIABLES
    isInitialized,   \* SocketIOAdapter.isInitialized
    userSocketMap,   \* SocketIOAdapter.userSocketMap: its own properties, and
                     \* under "__proto__" the socket that is its prototype
    sock,            \* every transport socket: stage, channel, socket.userId
    inbox,           \* what each client socket has been sent so far
    nextId,          \* stamp given to the next delivery call (message identity)
    bindOrder,       \* sockets in the order their authIo 'connection' handler ran
    registered,      \* the EventHandler[] given to the DomainEventDispatcher constructor
    handlers,        \* DomainEventDispatcher.handlers: event type -> handlers, by index
    out,             \* what the latest callback did (its result and its calls)
    servers,         \* SocketIOServer instances created on the httpServer (io, authIo)
    relayUp,         \* the notification service answers sendNotification's POST
    posts,           \* POSTs sendNotification has issued and that have not settled,
                     \* counted by currency
    http             \* route handlers waiting at their await of processEvent, in order

vars == <<isInitialized, userSocketMap, sock, inbox, nextId, bindOrder,
          registered, handlers, out, servers, relayUp, posts, http>>

(***************************************************************************)
(* Bounds                                                                  *)
(***************************************************************************)
MaxSockets == 2         \* transport connections of the registry scenario
MaxSends == 2           \* delivery calls (each is stamped with its number)
MaxServiceSockets == 1  \* transport connections of the event-service scenario
MaxHandlers == 3        \* handlers given to a dispatcher under test
MaxRequests == 1        \* HTTP requests waiting for their answer

SocketIds == 1..MaxSockets
NoSocket == 0

\* The accessor name through which a plain object's prototype is read and
\* written.
PrototypeKey == "__proto__"
\* "constructor" stands for the member names every plain object inherits
\* from Object.prototype as values (constructor, toString, hasOwnProperty,
\* ...); __proto__ is inherited as an accessor.
ObjectPrototypeKeys == {"constructor", PrototypeKey}
\* userIds the auth service may resolve a token to: userId is any string, an
\* ordinary one or one that is also a member name of Object.prototype.
UserIds == {"u1"} \cup ObjectPrototypeKeys
NoUser == "<none>"
Undefined == "<undefined>"
\* userId arguments a caller may pass to sendToUser.
SendKeys == UserIds \cup {Undefined}

(***************************************************************************)
(* Handshake cookies                                                       *)
(***************************************************************************)
CookieNames == {"authToken", "other"}
CookieValues == {"", "tok"}
CookiePairs == [name : CookieNames, value : CookieValues]

\* socket.handshake.headers.cookie: absent, or a header of name=value pairs
\* (the empty sequence is the empty string).
CookieHeaders ==
    {[present |-> FALSE, pairs |-> <<>>]}
        \cup {[present |-> TRUE, pairs |-> p] :
                p \in {<<>>} \cup {<<a>> : a \in CookiePairs}
                        \cup {<<a, b>> : a \in CookiePairs, b \in CookiePairs}}

\* !cookieHeader: undefined and "" are both falsy.
HeaderFalsy(h) == ~h.present \/ h.pairs = <<>>

\* cookie.parse(header)[name]: the first pair of that name wins; undefined
\* when there is none.
RECURSIVE CookieParse(_, _)
CookieParse(pairs, name) ==
    IF pairs = <<>> THEN Undefined
    ELSE IF Head(pairs).name = name THEN Head(pairs).value
    ELSE CookieParse(Tail(pairs), name)

\* Mutant of TokenFalsy: only the empty string is refused.
TokenFalsyEmptyOnly(tok) == tok = ""

\* !authToken: undefined and "" are both falsy.
TokenFalsy(tok) == tok = Undefined \/ tok = ""

(***************************************************************************)
(* userSocketMap: Record<string, Socket> = {}                              *)
(***************************************************************************)
\* this.userSocketMap[key]: an own property, else what the prototype chain
\* gives, else undefined. __proto__ reads the prototype: the socket put
\* there, or Object.prototype. The other inherited names give a function,
\* whether the chain starts at a socket or at Object.prototype.
MapGet(map, key) ==
    IF key \in DOMAIN map /\ map[key] # NoSocket
        THEN [t |-> "socket", id |-> map[key]]
    ELSE IF key \in ObjectPrototypeKeys
        THEN [t |-> "inherited", id |-> NoSocket]
    ELSE [t |-> "undefined", id |-> NoSocket]

\* JavaScript truthiness of a looked-up value.
Truthy(v) == v.t # "undefined"

\* Mutant of MapSet: the entry goes to the connection whose handshake began
\* later, whichever connection event comes last.
MapSetLaterHandshake(map, key, s) ==
    IF map[key] # NoSocket /\ map[key] > s THEN map ELSE [map EXCEPT ![key] = s]

\* Mutant of MapSet: an existing entry is kept (first connect wins).
MapSetIfAbsent(map, key, s) == IF map[key] = NoSocket THEN [map EXCEPT ![key] = s] ELSE map

\* this.userSocketMap[userId] = socket: an own property is created or
\* overwritten; for __proto__ the inherited setter makes the socket the
\* map's prototype and no own property is created.
MapSet(map, key, s) == [map EXCEPT ![key] = s]

\* Reflect.deleteProperty(this.userSocketMap, userId): removes an own
\* property; __proto__ is none, so the prototype stays.
MapDelete(map, key) == IF key = PrototypeKey THEN map ELSE [map EXCEPT ![key] = NoSocket]

\* String(key): the property name a value is looked up under.
ToKey(v) == IF v = Undefined THEN "undefined" ELSE v

(***************************************************************************)
(* Sockets                                                                 *)
(***************************************************************************)
IdleSock == [stage |-> "idle", chan |-> "none", userId |-> NoUser]

PublicLive == {s \in SocketIds : sock[s].chan = "public" /\ sock[s].stage = "connected"}
AuthLive == {s \in SocketIds : sock[s].chan = "auth" /\ sock[s].stage = "connected"}

\* Socket ids are opaque tokens: a new transport connection takes the least
\* id not yet used.
Fresh(s) == sock[s].stage = "idle" /\ \A t \in SocketIds : t < s => sock[t].stage # "idle"


(***************************************************************************)
(* Events and payloads                                                     *)
(***************************************************************************)
EventType == {"CRYPTO_UPDATE_EUR", "CRYPTO_UPDATE_USD", "USER_NOTIFICATION"}
\* eventType values a caller may submit.
SubmittedTypes == EventType \cup {"INVALID_TYPE"}

\* Price records: a record holds the fields it has.
Bitcoin == [id |-> "bitcoin", symbol |-> "btc", price |-> "102809.0", name |-> "Bitcoin"]
Ethereum == [id |-> "ethereum", symbol |-> "eth", price |-> "3187.37", name |-> "Ethereum"]
NoSymbol == [id |-> "bitcoin", price |-> "40000"]
NullItem == [null |-> TRUE]

ArrayPayload(items) == [t |-> "array", items |-> items]
ObjectPayload(o) == [t |-> "object", obj |-> o]
StringPayload(n) == [t |-> "string", len |-> n]
NullPayload == [t |-> "null"]

ArrayPayloads ==
    {ArrayPayload(i) : i \in {<<>>, <<Bitcoin>>, <<Bitcoin, Ethereum>>,
                              <<Ethereum, Bitcoin>>, <<NoSymbol>>, <<NullItem>>}}

\* The notification-intent record of a USER_NOTIFICATION event.
Intents ==
    [userId : SendKeys, cryptoId : {"bitcoin"}, alertPrice : {"40000"},
     currentPrice : {"41000"}, alertType : {"ABOVE", "BELOW"},
     message : {Undefined, "", "custom"}]

\* Payloads that are neither a sequence of records nor an intent record.
OddPayloads == {NullPayload, StringPayload(0), StringPayload(1)}

AnIntent == CHOOSE o \in Intents : o.userId = "u1" /\ o.message = Undefined /\ o.alertType = "ABOVE"

\* Payloads submitted with a crypto-update kind, with the user-notification
\* kind and with an unknown kind: every payload of the kind's own shape,
\* and some of the other shapes.
CryptoPayloads == ArrayPayloads \cup OddPayloads \cup {ObjectPayload(AnIntent)}
UserPayloads ==
    {ObjectPayload(o) : o \in Intents} \cup OddPayloads
        \cup {ArrayPayload(<<>>), ArrayPayload(<<Bitcoin>>)}
UnknownKindPayloads == {ArrayPayload(<<Bitcoin>>), ObjectPayload(AnIntent), NullPayload}

NullEvent == [isNull |-> TRUE, eventType |-> "", payload |-> NullPayload]
MkEvent(k, p) == [isNull |-> FALSE, eventType |-> k, payload |-> p]
Events ==
    {NullEvent}
        \cup {MkEvent(k, p) : k \in {"CRYPTO_UPDATE_EUR", "CRYPTO_UPDATE_USD"},
                              p \in CryptoPayloads}
        \cup {MkEvent("USER_NOTIFICATION", p) : p \in UserPayloads}
        \cup {MkEvent("INVALID_TYPE", p) : p \in UnknownKindPayloads}

\* payload.length === 0: "throw" when payload is null or undefined.
PayloadLengthIsZero(p) ==
    CASE p.t = "null" -> "throw"
      [] p.t = "array" -> IF Len(p.items) = 0 THEN "true" ELSE "false"
      [] p.t = "string" -> IF p.len = 0 THEN "true" ELSE "false"
      [] OTHER -> "false"

\* Mutant of isValidEventData: the payload is not looked at.
isValidEventDataTypeOnly(eventJson) ==
    IF eventJson.isNull THEN "false"
    ELSE IF eventJson.eventType \notin EventType THEN "false"
    ELSE "true"

\* EventService.isValidEventData: "true", "false", or "throw" (a TypeError).
isValidEventData(eventJson) ==
    IF eventJson.isNull THEN "false"
    ELSE IF eventJson.eventType \notin EventType THEN "false"
    ELSE LET z == PayloadLengthIsZero(eventJson.payload)
         IN  IF z = "throw" THEN "throw"
             ELSE IF z = "true" THEN "false"
             ELSE "true"

(***************************************************************************)
(* Messages the handlers build                                             *)
(***************************************************************************)
Field(r, f) == IF f \in DOMAIN r THEN r[f] ELSE Undefined

\* Mutant of Project: the record is passed on whole.
ProjectNothing(crypto) == crypto

\* The record createNotificationUpdateMessage maps each element to.
Project(crypto) ==
    [id |-> Field(crypto, "id"), symbol |-> Field(crypto, "symbol"),
     price |-> Field(crypto, "price")]

ProjectAll(items) == [i \in 1..Len(items) |-> Project(items[i])]

\* createViewUpdateMessage(timestamp, payload)
createViewUpdateMessage(payload) ==
    [kind |-> "view", payload |-> payload, text |-> <<>>]

\* createNotificationUpdateMessage(timestamp, eventInbound): payload.map
\* throws unless payload is an array of objects.
createNotificationUpdateMessage(eventInbound) ==
    LET p == eventInbound.payload
    IN  IF p.t # "array"
            THEN [err |-> "TypeError: payload.map", msg |-> createViewUpdateMessage(NullPayload)]
        ELSE IF \E i \in 1..Len(p.items) : p.items[i] = NullItem
            THEN [err |-> "TypeError: crypto is null", msg |-> createViewUpdateMessage(NullPayload)]
        ELSE [err |-> "none",
              msg |-> [kind |-> "relay", payload |-> ArrayPayload(ProjectAll(p.items)),
                       text |-> <<>>]]

\* `${value}` in a template string.
Str(v) == IF v = Undefined THEN "undefined" ELSE v

\* The notification text, as the pieces the template string joins.
NotificationText(o) ==
    IF o.message # Undefined /\ o.message # ""
        THEN <<o.message>>
        ELSE <<Str(o.cryptoId), " price ",
               IF o.alertType = "ABOVE" THEN "surpassed" ELSE "dropped below",
               " your target of $", Str(o.alertPrice),
               ". Current price is $", Str(o.currentPrice), ".">>

\* const { userId, ... } = event.payload: a payload without these fields
\* gives undefined for each.
NoIntent ==
    [userId |-> Undefined, cryptoId |-> Undefined, alertPrice |-> Undefined,
     currentPrice |-> Undefined, alertType |-> Undefined, message |-> Undefined]

Destructure(p) == IF p.t = "object" THEN p.obj ELSE NoIntent

(***************************************************************************)
(* Sockets and the delivery port                                           *)
(***************************************************************************)
Stamp(name, id) == [ev |-> name, id |-> id]

NoEvent == [isNull |-> TRUE, eventType |-> "<no event>", payload |-> NullPayload]

NoHeader == [present |-> FALSE, pairs |-> <<>>]

\* op: the callback; sock, header, res, event: its inputs; user: the userId
\* it worked with; err: the error it ended with; invoked: the handlers
\* dispatch called, in order; calls: the calls made on the output ports;
\* status: the HTTP status a route handler answered with.
NoOut ==
    [op |-> "none", sock |-> NoSocket, header |-> NoHeader, res |-> "none",
     user |-> NoUser, err |-> "none", event |-> NoEvent, invoked |-> <<>>,
     calls |-> <<>>, status |-> "none"]

AbstractMessage == [kind |-> "any", payload |-> NullPayload, text |-> <<>>]

\* Mutant of PortBroadcast: the emit reaches the sockets of both servers.
PortBroadcastBothServers ==
    IF ~isInitialized
        THEN [err |-> "SocketIOAdapter not initialized", to |-> {}]
        ELSE [err |-> "none", to |-> PublicLive \cup AuthLive]

\* Mutant of PortBroadcast: the isInitialized guard is missing.
PortBroadcastUnguarded == [err |-> "none", to |-> PublicLive]

\* this.io.emit(name, messageJson) behind the isInitialized guard: the error
\* thrown, and the sockets reached.
PortBroadcast ==
    IF ~isInitialized
        THEN [err |-> "SocketIOAdapter not initialized", to |-> {}]
        ELSE [err |-> "none", to |-> PublicLive]

\* Mutant of PortSendToUser: the emit reaches every authenticated socket.
PortSendToUserEveryone(userId) ==
    IF ~isInitialized
        THEN [err |-> "SocketIOAdapter not initialized", to |-> {}]
        ELSE [err |-> "none", to |-> AuthLive]

\* sendToUser: the guard, the lookup and the emit.
PortSendToUser(userId) ==
    IF ~isInitialized
        THEN [err |-> "SocketIOAdapter not initialized", to |-> {}]
    ELSE LET userSocket == MapGet(userSocketMap, ToKey(userId))
         IN  IF ~Truthy(userSocket) THEN [err |-> "none", to |-> {}]
             ELSE IF userSocket.t = "socket" THEN [err |-> "none", to |-> {userSocket.id}]
             ELSE [err |-> "TypeError: userSocket.emit is not a function", to |-> {}]

\* One call on an output port, with what it did: the error it threw to its
\* caller, the sockets reached, and for the relay the state of its POST
\* ("pending" when the call returns, "ok" or "failed" once it has settled).
\* id is the call's stamp (0 for the relay, which reaches no socket).
CallBroadcastEUR(msg, id) ==
    LET r == PortBroadcast
    IN  [port |-> "broadcastEUR", to |-> "", msg |-> msg, id |-> id,
         err |-> r.err, delivered |-> r.to, relay |-> "none"]

CallBroadcastUSD(msg, id) ==
    LET r == PortBroadcast
    IN  [port |-> "broadcastUSD", to |-> "", msg |-> msg, id |-> id,
         err |-> r.err, delivered |-> r.to, relay |-> "none"]

CallSendToUser(userId, msg, id) ==
    LET r == PortSendToUser(userId)
    IN  [port |-> "sendToUser", to |-> userId, msg |-> msg, id |-> id,
         err |-> r.err, delivered |-> r.to, relay |-> "none"]

\* Mutant of CallSendNotification: the call throws to its caller when the
\* notification service is down.
CallSendNotificationThrows(currency, msg) ==
    [port |-> "sendNotification", to |-> currency, msg |-> msg, id |-> 0,
     err |-> IF relayUp THEN "none" ELSE "RelayDeliveryFailure", delivered |-> {},
     relay |-> "pending"]

\* NotificationAdapter.sendNotification up to its await: an async function,
\* so the call issues the POST and returns a promise; nothing is thrown to
\* the caller. The POST settles in a later callback (PostSettles).
CallSendNotification(currency, msg) ==
    [port |-> "sendNotification", to |-> currency, msg |-> msg, id |-> 0,
     err |-> "none", delivered |-> {}, relay |-> "pending"]

Currencies == {"eur", "usd"}
NoPosts == [c \in Currencies |-> 0]

\* The POSTs in flight once the calls are made.
Issued(pending, calls) ==
    [c \in Currencies |->
        pending[c] + Cardinality({j \in 1..Len(calls) :
                                    calls[j].port = "sendNotification" /\ calls[j].to = c})]

EmitName(port) == IF port = "sendToUser" THEN "user-specific-event" ELSE port

\* What the clients have received once the calls are made.
Received(box, calls) ==
    [s \in SocketIds |->
        box[s] \cup {Stamp(EmitName(calls[i].port), calls[i].id) :
                        i \in {j \in 1..Len(calls) : s \in calls[j].delivered}}]

(***************************************************************************)
(* Handlers                                                                *)
(***************************************************************************)
\* A handler as the dispatcher sees it: its eventTypes, and what handle does
\* ("crypto": CryptoUpdateHandler, "user": UserNotificationHandler, "stub":
\* any other EventHandler, which returns or throws).
CryptoUpdateHandler ==
    [impl |-> "crypto", eventTypes |-> <<"CRYPTO_UPDATE_EUR", "CRYPTO_UPDATE_USD">>,
     throws |-> FALSE]
UserNotificationHandler ==
    [impl |-> "user", eventTypes |-> <<"USER_NOTIFICATION">>, throws |-> FALSE]

\* Mutant of ServiceHandlers: the user-notification handler is left out.
ServiceHandlersCryptoOnly == <<CryptoUpdateHandler>>

\* EventService's constructor: [cryptoUpdateHandler, userNotificationHandler]
ServiceHandlers == <<CryptoUpdateHandler, UserNotificationHandler>>

\* The result of one handle call: the port calls made, the error thrown,
\* the next free stamp.
Handled(calls, err, id) == [calls |-> calls, err |-> err, id |-> id]

\* The broadcast, then the relay: an error thrown by either call leaves
\* handle at once.
BroadcastThenRelay(b, n, id) ==
    IF b.err # "none" THEN Handled(<<b>>, b.err, id + 1)
    ELSE Handled(<<b, n>>, n.err, id + 1)

\* Mutant of CryptoHandle: every update goes out on the EUR sub-channel.
CryptoHandleAllOnEUR(eventInbound, id) ==
    LET updateMessage == createViewUpdateMessage(eventInbound.payload)
        notification == createNotificationUpdateMessage(eventInbound)
    IN  IF notification.err # "none" THEN Handled(<<>>, notification.err, id)
        ELSE IF eventInbound.eventType = "CRYPTO_UPDATE_EUR"
            THEN BroadcastThenRelay(CallBroadcastEUR(updateMessage, id),
                                    CallSendNotification("eur", notification.msg), id)
        ELSE IF eventInbound.eventType = "CRYPTO_UPDATE_USD"
            THEN BroadcastThenRelay(CallBroadcastEUR(updateMessage, id),
                                    CallSendNotification("usd", notification.msg), id)
        ELSE Handled(<<>>, "none", id)

\* Mutant of CryptoHandle: the relay message is built after the broadcast
\* has gone out.
CryptoHandleBuildsRelayLate(eventInbound, id) ==
    LET updateMessage == createViewUpdateMessage(eventInbound.payload)
        notification == createNotificationUpdateMessage(eventInbound)
        b == IF eventInbound.eventType = "CRYPTO_UPDATE_EUR"
                 THEN CallBroadcastEUR(updateMessage, id)
                 ELSE CallBroadcastUSD(updateMessage, id)
        tag == IF eventInbound.eventType = "CRYPTO_UPDATE_EUR" THEN "eur" ELSE "usd"
    IN  IF eventInbound.eventType \notin {"CRYPTO_UPDATE_EUR", "CRYPTO_UPDATE_USD"}
            THEN Handled(<<>>, "none", id)
        ELSE IF b.err # "none" THEN Handled(<<b>>, b.err, id + 1)
        ELSE IF notification.err # "none" THEN Handled(<<b>>, notification.err, id + 1)
        ELSE Handled(<<b, CallSendNotification(tag, notification.msg)>>, "none", id + 1)

\* CryptoUpdateHandler.handle
CryptoHandle(eventInbound, id) ==
    LET updateMessage == createViewUpdateMessage(eventInbound.payload)
        notification == createNotificationUpdateMessage(eventInbound)
    IN  IF notification.err # "none" THEN Handled(<<>>, notification.err, id)
        ELSE IF eventInbound.eventType = "CRYPTO_UPDATE_EUR"
            THEN BroadcastThenRelay(CallBroadcastEUR(updateMessage, id),
                                    CallSendNotification("eur", notification.msg), id)
        ELSE IF eventInbound.eventType = "CRYPTO_UPDATE_USD"
            THEN BroadcastThenRelay(CallBroadcastUSD(updateMessage, id),
                                    CallSendNotification("usd", notification.msg), id)
        ELSE Handled(<<>>, "none", id)

\* Mutant of UserHandle: the notification goes out as a EUR broadcast.
UserHandleBroadcasts(event, id) ==
    IF event.payload.t = "null"
        THEN Handled(<<>>, "TypeError: cannot destructure payload", id)
    ELSE LET o == Destructure(event.payload)
             c == CallBroadcastEUR([kind |-> "text", payload |-> NullPayload,
                                    text |-> NotificationText(o)], id)
         IN  Handled(<<c>>, c.err, id + 1)

\* UserNotificationHandler.handle
UserHandle(event, id) ==
    IF event.payload.t = "null"
        THEN Handled(<<>>, "TypeError: cannot destructure payload", id)
    ELSE LET o == Destructure(event.payload)
             c == CallSendToUser(o.userId,
                                 [kind |-> "text", payload |-> NullPayload,
                                  text |-> NotificationText(o)], id)
         IN  Handled(<<c>>, c.err, id + 1)

Handle(h, event, id) ==
    CASE h.impl = "crypto" -> CryptoHandle(event, id)
      [] h.impl = "user" -> UserHandle(event, id)
      [] OTHER -> Handled(<<>>, IF h.throws THEN "HandlerError" ELSE "none", id)

(***************************************************************************)
(* DomainEventDispatcher                                                   *)
(***************************************************************************)
\* Mutant of RegisterTypes: a handler already in a kind's list is not
\* appended to it again.
RECURSIVE RegisterTypesOnce(_, _, _)
RegisterTypesOnce(map, h, types) ==
    IF types = <<>> THEN map
    ELSE IF \E p \in 1..Len(map[Head(types)]) : map[Head(types)][p] = h
        THEN RegisterTypesOnce(map, h, Tail(types))
    ELSE RegisterTypesOnce([map EXCEPT ![Head(types)] = Append(@, h)], h, Tail(types))

\* Mutant of RegisterTypes: the handler is put at the head of the list.
RECURSIVE RegisterTypesAtHead(_, _, _)
RegisterTypesAtHead(map, h, types) ==
    IF types = <<>> THEN map
    ELSE RegisterTypesAtHead([map EXCEPT ![Head(types)] = <<h>> \o @], h, Tail(types))

\* handler.eventTypes.forEach(...): handler h appended to each type's list.
RECURSIVE RegisterTypes(_, _, _)
RegisterTypes(map, h, types) ==
    IF types = <<>> THEN map
    ELSE RegisterTypes([map EXCEPT ![Head(types)] = Append(@, h)], h, Tail(types))

\* handlers.forEach(...) from handler i on.
RECURSIVE RegisterFrom(_, _, _)
RegisterFrom(map, hs, i) ==
    IF i > Len(hs) THEN map
    ELSE RegisterFrom(RegisterTypes(map, i, hs[i].eventTypes), hs, i + 1)

\* The constructor: a type with no list yet is a type whose list is empty.
DomainEventDispatcher(hs) == RegisterFrom([k \in EventType |-> <<>>], hs, 1)

\* this.handlers.get(eventType)
HandlersGet(map, k) == IF k \in DOMAIN map THEN map[k] ELSE <<>>

\* Mutant of RunHandlers: an error thrown by a handler is caught and dropped,
\* and the loop goes on.
RECURSIVE RunHandlersSwallows(_, _, _)
RunHandlersSwallows(list, event, id) ==
    IF list = <<>> THEN [invoked |-> <<>>, calls |-> <<>>, err |-> "none", id |-> id]
    ELSE LET r == Handle(registered[Head(list)], event, id)
             rest == RunHandlersSwallows(Tail(list), event, r.id)
         IN  [invoked |-> <<Head(list)>> \o rest.invoked,
              calls |-> r.calls \o rest.calls, err |-> rest.err, id |-> rest.id]

\* Mutant of RunHandlers: an error thrown by a handler is kept until every
\* handler has run, and thrown then.
RECURSIVE RunHandlersContinues(_, _, _)
RunHandlersContinues(list, event, id) ==
    IF list = <<>> THEN [invoked |-> <<>>, calls |-> <<>>, err |-> "none", id |-> id]
    ELSE LET r == Handle(registered[Head(list)], event, id)
             rest == RunHandlersContinues(Tail(list), event, r.id)
         IN  [invoked |-> <<Head(list)>> \o rest.invoked,
              calls |-> r.calls \o rest.calls,
              err |-> IF r.err # "none" THEN r.err ELSE rest.err, id |-> rest.id]

\* handlers.forEach(handler => handler.handle(event)): a throw ends the loop.
RECURSIVE RunHandlers(_, _, _)
RunHandlers(list, event, id) ==
    IF list = <<>> THEN [invoked |-> <<>>, calls |-> <<>>, err |-> "none", id |-> id]
    ELSE LET r == Handle(registered[Head(list)], event, id)
         IN  IF r.err # "none"
                 THEN [invoked |-> <<Head(list)>>, calls |-> r.calls, err |-> r.err,
                       id |-> r.id]
                 ELSE LET rest == RunHandlers(Tail(list), event, r.id)
                      IN  [invoked |-> <<Head(list)>> \o rest.invoked,
                           calls |-> r.calls \o rest.calls, err |-> rest.err,
                           id |-> rest.id]

\* Mutant of Dispatch: an empty or absent list is run like any other.
DispatchNoCheck(event, id) == RunHandlers(HandlersGet(handlers, event.eventType), event, id)

\* DomainEventDispatcher.dispatch
Dispatch(event, id) ==
    LET list == HandlersGet(handlers, event.eventType)
    IN  IF Len(list) > 0 THEN RunHandlers(list, event, id)
        ELSE [invoked |-> <<>>, calls |-> <<>>, err |-> "No handler found for event type",
              id |-> id]

\* EventService.processEvent
Process(eventJson, id) ==
    LET v == isValidEventData(eventJson)
    IN  IF v = "false"
            THEN [invoked |-> <<>>, calls |-> <<>>, err |-> "Invalid event data", id |-> id]
        ELSE IF v = "throw"
            THEN [invoked |-> <<>>, calls |-> <<>>, err |-> "TypeError: payload.length",
                  id |-> id]
        ELSE Dispatch(eventJson, id)

(***************************************************************************)
(* Initial state: the adapter and the event service constructed            *)
(***************************************************************************)
\* Mutant of InitRegistry: the constructor does not call initialize.
InitRegistryNoSetup ==
    /\ isInitialized = FALSE
    /\ userSocketMap = [u \in UserIds |-> NoSocket]
    /\ sock = [s \in SocketIds |-> IdleSock]
    /\ inbox = [s \in SocketIds |-> {}]
    /\ nextId = 1
    /\ bindOrder = <<>>
    /\ out = NoOut
    /\ servers = 0
    /\ relayUp = TRUE
    /\ posts = NoPosts
    /\ http = <<>>

\* new SocketIOAdapter(...): the field initializers, then initialize().
InitRegistry ==
    /\ isInitialized = TRUE
    /\ userSocketMap = [u \in UserIds |-> NoSocket]
    /\ sock = [s \in SocketIds |-> IdleSock]
    /\ inbox = [s \in SocketIds |-> {}]
    /\ nextId = 1
    /\ bindOrder = <<>>
    /\ out = NoOut
    /\ servers = 2
    /\ relayUp = TRUE
    /\ posts = NoPosts
    /\ http = <<>>

Init ==
    /\ InitRegistry
    /\ registered = ServiceHandlers
    /\ handlers = DomainEventDispatcher(ServiceHandlers)

(***************************************************************************)
(* SocketIOAdapter.initialize and the handlers it installs                 *)
(***************************************************************************)
\* Mutant of Initialize: the isInitialized guard is missing, so every call
\* opens the two servers and installs their handlers again.
InitializeUnguarded ==
    /\ isInitialized' = TRUE
    /\ servers' = servers + 2
    /\ out' = [NoOut EXCEPT !.op = "initialize"]
    /\ UNCHANGED <<userSocketMap, sock, inbox, nextId, bindOrder, registered, handlers,
                   relayUp, posts, http>>

\* initialize(): the first call opens the public and the authenticated
\* server and installs their handlers; a later call does nothing.
Initialize ==
    /\ isInitialized' = TRUE
    /\ servers' = IF ~isInitialized THEN servers + 2 ELSE servers
    /\ out' = [NoOut EXCEPT !.op = "initialize"]
    /\ UNCHANGED <<userSocketMap, sock, inbox, nextId, bindOrder, registered, handlers,
                   relayUp, posts, http>>

\* this.io.on('connection', ...)
PublicConnection(s) ==
    /\ isInitialized
    /\ Fresh(s)
    /\ sock' = [sock EXCEPT ![s] = [stage |-> "connected", chan |-> "public", userId |-> NoUser]]
    /\ out' = [NoOut EXCEPT !.op = "publicConnection", !.sock = s]
    /\ UNCHANGED <<isInitialized, userSocketMap, inbox, nextId, bindOrder, registered, handlers, servers, relayUp, posts, http>>

\* socket.on('disconnect', ...) of a public socket
PublicDisconnect(s) ==
    /\ sock[s].chan = "public"
    /\ sock[s].stage = "connected"
    /\ sock' = [sock EXCEPT ![s].stage = "closed"]
    /\ out' = [NoOut EXCEPT !.op = "publicDisconnect", !.sock = s]
    /\ UNCHANGED <<isInitialized, userSocketMap, inbox, nextId, bindOrder, registered, handlers, servers, relayUp, posts, http>>

\* next(new Error(reason))
Rejected(op, s, h, res, reason) ==
    /\ sock' = [sock EXCEPT ![s] = [stage |-> "rejected", chan |-> "auth", userId |-> NoUser]]
    /\ out' = [NoOut EXCEPT !.op = op, !.sock = s, !.header = h, !.res = res,
                            !.err = reason]

\* authIo.use middleware up to the await of validateToken.
AuthMiddleware(s, h) ==
    /\ isInitialized
    /\ Fresh(s)
    /\ IF HeaderFalsy(h) THEN Rejected("authMiddleware", s, h, "none", "No cookies provided")
       ELSE IF TokenFalsy(CookieParse(h.pairs, "authToken"))
           THEN Rejected("authMiddleware", s, h, "none",
                         "No authToken provided in cookies")
       ELSE /\ sock' = [sock EXCEPT ![s] = [stage |-> "validating", chan |-> "auth",
                                            userId |-> NoUser]]
            /\ out' = [NoOut EXCEPT !.op = "authMiddleware", !.sock = s, !.header = h]
    /\ UNCHANGED <<isInitialized, userSocketMap, inbox, nextId, bindOrder, registered, handlers, servers, relayUp, posts, http>>

\* What awaiting authService.validateToken can produce.
ValidationResults ==
    {[t |-> "null", userId |-> NoUser], [t |-> "throw", userId |-> NoUser]}
        \cup {[t |-> "user", userId |-> u] : u \in UserIds}

\* Mutant of ValidateTokenDone: an error of the auth service lets the
\* connection through (fail open).
ValidateTokenDoneFailOpen(s, res) ==
    /\ sock[s].stage = "validating"
    /\ IF res.t # "null"
         THEN /\ sock' = [sock EXCEPT ![s] = [stage |-> "authorized", chan |-> "auth",
                                              userId |-> res.userId]]
              /\ out' = [NoOut EXCEPT !.op = "validateTokenDone", !.sock = s,
                                      !.res = res.t, !.user = res.userId]
         ELSE Rejected("validateTokenDone", s, NoHeader, res.t, "Unauthorized")
    /\ UNCHANGED <<isInitialized, userSocketMap, inbox, nextId, bindOrder, registered, handlers, servers, relayUp, posts, http>>

\* authIo.use middleware after the await: next() or next(Error).
ValidateTokenDone(s, res) ==
    /\ sock[s].stage = "validating"
    /\ IF res.t = "user"
         THEN /\ sock' = [sock EXCEPT ![s] = [stage |-> "authorized", chan |-> "auth",
                                              userId |-> res.userId]]
              /\ out' = [NoOut EXCEPT !.op = "validateTokenDone", !.sock = s,
                                      !.res = res.t, !.user = res.userId]
         ELSE Rejected("validateTokenDone", s, NoHeader, res.t, "Unauthorized")
    /\ UNCHANGED <<isInitialized, userSocketMap, inbox, nextId, bindOrder, registered, handlers, servers, relayUp, posts, http>>

\* authIo.on('connection', ...)
AuthConnection(s) ==
    /\ sock[s].stage = "authorized"
    /\ sock' = [sock EXCEPT ![s].stage = "connected"]
    /\ userSocketMap' = MapSet(userSocketMap, sock[s].userId, s)
    /\ bindOrder' = Append(bindOrder, s)
    /\ out' = [NoOut EXCEPT !.op = "authConnection", !.sock = s, !.user = sock[s].userId]
    /\ UNCHANGED <<isInitialized, inbox, nextId, registered, handlers, servers, relayUp, posts, http>>

\* mappedSocket && mappedSocket.id === socket.id
StillMapped(map, userId, s) ==
    LET mappedSocket == MapGet(map, userId)
    IN  Truthy(mappedSocket) /\ mappedSocket.t = "socket" /\ mappedSocket.id = s

\* Mutant of AfterDisconnect: the entry is deleted without the comparison.
AfterDisconnectNoCompare(map, userId, s) == MapDelete(map, userId)

\* Mutant of AfterDisconnect: when the mapped socket closes, the whole table
\* is cleared.
AfterDisconnectClearsTable(map, userId, s) ==
    IF map[userId] = s THEN [u \in DOMAIN map |-> NoSocket] ELSE map

\* The map after the 'disconnect' handler of socket s, bound to userId.
AfterDisconnect(map, userId, s) ==
    IF StillMapped(map, userId, s) THEN MapDelete(map, userId) ELSE map

\* socket.on('disconnect', ...) of an authenticated socket
AuthDisconnect(s) ==
    /\ sock[s].chan = "auth"
    /\ sock[s].stage = "connected"
    /\ sock' = [sock EXCEPT ![s].stage = "closed"]
    /\ userSocketMap' = AfterDisconnect(userSocketMap, sock[s].userId, s)
    /\ out' = [NoOut EXCEPT !.op = "authDisconnect", !.sock = s, !.user = sock[s].userId]
    /\ UNCHANGED <<isInitialized, inbox, nextId, bindOrder, registered, handlers, servers, relayUp, posts, http>>

(***************************************************************************)
(* Calls on the delivery port and on the event service                     *)
(***************************************************************************)
\* Mutant of PortCall: a sendToUser uses up the entry it looked up.
PortCallConsumesEntry(op, c) ==
    /\ nextId <= MaxSends
    /\ inbox' = Received(inbox, <<c>>)
    /\ out' = [NoOut EXCEPT !.op = op, !.err = c.err, !.calls = <<c>>]
    /\ nextId' = nextId + 1
    /\ userSocketMap' = [u \in DOMAIN userSocketMap |->
                            IF c.port = "sendToUser" /\ u = ToKey(c.to)
                                THEN NoSocket ELSE userSocketMap[u]]
    /\ UNCHANGED <<isInitialized, sock, bindOrder, registered, handlers, servers, relayUp, posts, http>>

\* A call of a method of the delivery port by any caller.
PortCall(op, c) ==
    /\ nextId <= MaxSends
    /\ inbox' = Received(inbox, <<c>>)
    /\ out' = [NoOut EXCEPT !.op = op, !.err = c.err, !.calls = <<c>>]
    /\ nextId' = nextId + 1
    /\ UNCHANGED <<isInitialized, userSocketMap, sock, bindOrder, registered, handlers, servers, relayUp, posts, http>>

BroadcastEUR == PortCall("broadcastEUR", CallBroadcastEUR(AbstractMessage, nextId))

BroadcastUSD == PortCall("broadcastUSD", CallBroadcastUSD(AbstractMessage, nextId))

SendToUser(u) == PortCall("sendToUser", CallSendToUser(u, AbstractMessage, nextId))

\* A call of processEvent or dispatch that ended as r says.
Ran(op, event, r) ==
    /\ inbox' = Received(inbox, r.calls)
    /\ out' = [NoOut EXCEPT !.op = op, !.event = event, !.err = r.err,
                            !.invoked = r.invoked, !.calls = r.calls]
    /\ nextId' = r.id
    /\ posts' = Issued(posts, r.calls)
    /\ UNCHANGED <<isInitialized, userSocketMap, sock, bindOrder, registered, handlers, servers, relayUp, http>>

\* The continuation of sendNotification after await axios.post, for a
\* POST of the given currency: it went through (res "ok"), or it failed and
\* the catch logged the failure (res "failed"). Nothing is thrown.
PostSettles(currency) ==
    /\ posts[currency] > 0
    /\ posts' = [posts EXCEPT ![currency] = @ - 1]
    /\ out' = [NoOut EXCEPT !.op = "postSettles", !.user = currency,
                            !.res = IF relayUp THEN "ok" ELSE "failed"]
    /\ UNCHANGED <<isInitialized, userSocketMap, sock, inbox, nextId, bindOrder, registered,
                   handlers, servers, relayUp, http>>

\* The notification service goes down or comes back: the POST of
\* sendNotification fails while it is down.
RelayChange ==
    /\ relayUp' = ~relayUp
    /\ UNCHANGED <<isInitialized, userSocketMap, sock, inbox, nextId, bindOrder, registered,
                   handlers, out, servers, posts, http>>

\* eventService.processEvent(eventJson)
ProcessEvent(eventJson) ==
    /\ nextId <= MaxSends
    /\ Ran("processEvent", eventJson, Process(eventJson, nextId))

\* Request bodies of POST /realtime/events/notifyUser: an object with the
\* fields it has (an absent field reads as undefined), or no parsed body.
BodyObjects ==
    [userId : {Undefined, ""} \cup UserIds, cryptoId : {"bitcoin"}, alertPrice : {"40000"},
     currentPrice : {"41000"}, alertType : {"ABOVE"}, message : {Undefined, "custom"}]

Bodies == {ObjectPayload(o) : o \in BodyObjects} \cup {NullPayload}

\* !userId
Falsy(v) == v \in {Undefined, ""}

\* The event handleNotifyUser builds from the six fields it destructured.
NotifyUserEvent(o) ==
    MkEvent("USER_NOTIFICATION",
            ObjectPayload([userId |-> o.userId, cryptoId |-> o.cryptoId,
                           alertPrice |-> o.alertPrice, currentPrice |-> o.currentPrice,
                           alertType |-> o.alertType, message |-> o.message]))

\* Bodies of POST /realtime/events/cryptomarketdata: passed to processEvent
\* as they are (no parsed body is the null event).
PostedEvents ==
    {NullEvent, MkEvent("INVALID_TYPE", ArrayPayload(<<Bitcoin>>))}
        \cup {MkEvent(k, p) : k \in {"CRYPTO_UPDATE_EUR", "CRYPTO_UPDATE_USD"},
                              p \in {ArrayPayload(<<Bitcoin>>), NullPayload}}
        \cup {MkEvent("USER_NOTIFICATION", p) :
                  p \in {NullPayload, ObjectPayload(NoIntent),
                         ObjectPayload([NoIntent EXCEPT !.userId = "u1"])}}

\* The handler answered within its first segment, having called nothing.
Answered(userId, status, err) ==
    /\ out' = [NoOut EXCEPT !.op = "notifyUser", !.user = userId, !.status = status,
                            !.err = err]
    /\ UNCHANGED <<isInitialized, userSocketMap, sock, inbox, nextId, bindOrder, registered,
                   handlers, servers, relayUp, posts, http>>

\* The handler called processEvent, which ended as r says, and waits at its
\* await: the answer comes in a later callback (RouteAnswer).
Submitted(route, userId, event, r) ==
    /\ inbox' = Received(inbox, r.calls)
    /\ out' = [NoOut EXCEPT !.op = route, !.user = userId, !.event = event,
                            !.err = r.err, !.invoked = r.invoked, !.calls = r.calls]
    /\ nextId' = r.id
    /\ posts' = Issued(posts, r.calls)
    /\ http' = Append(http, [route |-> route, err |-> r.err])
    /\ UNCHANGED <<isInitialized, userSocketMap, sock, bindOrder, registered, handlers,
                   servers, relayUp>>

\* Mutant of NotifyUser: the userId check is missing.
NotifyUserUnchecked(body) ==
    /\ nextId <= MaxSends
    /\ Len(http) < MaxRequests
    /\ IF body.t # "object"
           THEN Answered(NoUser, "500", "TypeError: cannot destructure body")
       ELSE Submitted("notifyUser", body.obj.userId, NotifyUserEvent(body.obj),
                      Process(NotifyUserEvent(body.obj), nextId))

\* EventAdapter.handleNotifyUser up to its await: out.err is the error its
\* catch logged, or the one processEvent's promise was rejected with.
NotifyUser(body) ==
    /\ nextId <= MaxSends
    /\ Len(http) < MaxRequests
    /\ IF body.t # "object"
           THEN Answered(NoUser, "500", "TypeError: cannot destructure body")
       ELSE IF Falsy(body.obj.userId)
           THEN Answered(body.obj.userId, "400", "none")
       ELSE Submitted("notifyUser", body.obj.userId, NotifyUserEvent(body.obj),
                      Process(NotifyUserEvent(body.obj), nextId))

\* EventAdapter.handleEvent up to its await.
PostEvent(eventJson) ==
    /\ nextId <= MaxSends
    /\ Len(http) < MaxRequests
    /\ Submitted("cryptomarketdata", NoUser, eventJson, Process(eventJson, nextId))

\* The continuation of a route handler after await processEvent: 200, or
\* 500 from the catch when the promise was rejected.
RouteAnswer ==
    /\ http # <<>>
    /\ http' = Tail(http)
    /\ out' = [NoOut EXCEPT !.op = "routeAnswer", !.res = Head(http).route,
                            !.err = Head(http).err,
                            !.status = IF Head(http).err = "none" THEN "200" ELSE "500"]
    /\ UNCHANGED <<isInitialized, userSocketMap, sock, inbox, nextId, bindOrder, registered,
                   handlers, servers, relayUp, posts>>

\* EventAdapter.healthCheck
HealthCheck ==
    /\ out' = [NoOut EXCEPT !.op = "health", !.status = "200"]
    /\ UNCHANGED <<isInitialized, userSocketMap, sock, inbox, nextId, bindOrder, registered,
                   handlers, servers, relayUp, posts, http>>

\* Mutant of DispatchEvent: the loop consumes the list it runs, so the kind
\* has no handlers left afterwards.
DispatchEventDrainsList(event) ==
    /\ nextId <= MaxSends
    /\ LET r == Dispatch(event, nextId)
       IN  /\ inbox' = Received(inbox, r.calls)
           /\ out' = [NoOut EXCEPT !.op = "dispatch", !.event = event, !.err = r.err,
                                   !.invoked = r.invoked, !.calls = r.calls]
           /\ nextId' = r.id
           /\ posts' = Issued(posts, r.calls)
    /\ handlers' = [k \in DOMAIN handlers |->
                       IF k = event.eventType THEN <<>> ELSE handlers[k]]
    /\ UNCHANGED <<isInitialized, userSocketMap, sock, bindOrder, registered, servers, relayUp, http>>

\* eventDispatcher.dispatch(event)
DispatchEvent(event) ==
    /\ nextId <= MaxSends
    /\ Ran("dispatch", event, Dispatch(event, nextId))

(***************************************************************************)
(* Specifications                                                          *)
(***************************************************************************)
\* The connection registry: connections come and go while callers use the
\* delivery port.
Next ==
    \/ Initialize
    \/ \E s \in SocketIds : PublicConnection(s)
    \/ \E s \in SocketIds : PublicDisconnect(s)
    \/ \E s \in SocketIds : \E h \in CookieHeaders : AuthMiddleware(s, h)
    \/ \E s \in SocketIds : \E res \in ValidationResults : ValidateTokenDone(s, res)
    \/ \E s \in SocketIds : AuthConnection(s)
    \/ \E s \in SocketIds : AuthDisconnect(s)
    \/ BroadcastEUR
    \/ BroadcastUSD
    \/ \E u \in SendKeys : SendToUser(u)

Spec == Init /\ [][Next]_vars

\* The event service: events are submitted while a few connections come and
\* go.
ServiceSocketIds == 1..MaxServiceSockets
SessionHeader == [present |-> TRUE, pairs |-> <<[name |-> "authToken", value |-> "tok"]>>]

NextService ==
    \/ \E s \in ServiceSocketIds : PublicConnection(s)
    \/ \E s \in ServiceSocketIds : AuthMiddleware(s, SessionHeader)
    \/ \E s \in ServiceSocketIds : \E res \in ValidationResults : ValidateTokenDone(s, res)
    \/ \E s \in ServiceSocketIds : AuthConnection(s)
    \/ \E s \in ServiceSocketIds : AuthDisconnect(s)
    \/ \E e \in Events : ProcessEvent(e)
    \/ \E c \in Currencies : PostSettles(c)

SpecService == Init /\ [][NextService]_vars

\* The relay: events are submitted while the notification service goes down
\* and comes back and public connections come and go.
NextRelay ==
    \/ RelayChange
    \/ \E c \in Currencies : PostSettles(c)
    \/ \E s \in ServiceSocketIds : PublicConnection(s)
    \/ \E s \in ServiceSocketIds : PublicDisconnect(s)
    \/ \E e \in Events : ProcessEvent(e)

SpecRelay == Init /\ [][NextRelay]_vars

\* The HTTP routes: requests are posted and answered while a few
\* connections come and go.
NextHttp ==
    \/ \E s \in ServiceSocketIds : PublicConnection(s)
    \/ \E s \in ServiceSocketIds : AuthMiddleware(s, SessionHeader)
    \/ \E s \in ServiceSocketIds : \E res \in ValidationResults : ValidateTokenDone(s, res)
    \/ \E s \in ServiceSocketIds : AuthConnection(s)
    \/ \E s \in ServiceSocketIds : AuthDisconnect(s)
    \/ \E b \in Bodies : NotifyUser(b)
    \/ \E e \in PostedEvents : PostEvent(e)
    \/ RouteAnswer
    \/ HealthCheck
    \/ \E c \in Currencies : PostSettles(c)

SpecHttp == Init /\ [][NextHttp]_vars

\* A dispatcher constructed with any handlers, and events dispatched to it.
StubTypes == {"CRYPTO_UPDATE_EUR", "USER_NOTIFICATION"}

HandlerTypeLists ==
    {<<>>} \cup {<<k>> : k \in StubTypes} \cup {<<k, l>> : k \in StubTypes, l \in StubTypes}

HandlerChoices ==
    [impl : {"stub"}, eventTypes : HandlerTypeLists, throws : BOOLEAN]
        \cup {CryptoUpdateHandler, UserNotificationHandler}

HandlerLists ==
    UNION {[1..n -> HandlerChoices] : n \in 0..MaxHandlers}

DispatchedEvents ==
    {MkEvent(k, p) : k \in SubmittedTypes,
                     p \in {ArrayPayload(<<Bitcoin>>),
                            ObjectPayload([NoIntent EXCEPT !.userId = "u1"])}}

InitDispatcher ==
    /\ InitRegistry
    /\ registered \in HandlerLists
    /\ handlers = DomainEventDispatcher(registered)

NextDispatcher ==
    \/ \E e \in DispatchedEvents : DispatchEvent(e)
    \/ \E c \in Currencies : PostSettles(c)

SpecDispatcher == InitDispatcher /\ [][NextDispatcher]_vars

\* Everything that can happen to the adapter at once: admissions on both
\* channels, closes, delivery calls and events dispatched to the service's
\* handlers.
FrameEvents ==
    {MkEvent("CRYPTO_UPDATE_EUR", ArrayPayload(<<Bitcoin>>)),
     MkEvent("USER_NOTIFICATION", ObjectPayload([NoIntent EXCEPT !.userId = "u1"])),
     MkEvent("INVALID_TYPE", ArrayPayload(<<Bitcoin>>))}

NextFrame ==
    \/ Initialize
    \/ \E s \in SocketIds : PublicConnection(s)
    \/ \E s \in SocketIds : PublicDisconnect(s)
    \/ \E s \in SocketIds : \E h \in {NoHeader, SessionHeader} : AuthMiddleware(s, h)
    \/ \E s \in SocketIds : \E res \in ValidationResults : ValidateTokenDone(s, res)
    \/ \E s \in SocketIds : AuthConnection(s)
    \/ \E s \in SocketIds : AuthDisconnect(s)
    \/ BroadcastEUR
    \/ BroadcastUSD
    \/ \E u \in SendKeys : SendToUser(u)
    \/ \E e \in FrameEvents : DispatchEvent(e)
    \/ \E c \in Currencies : PostSettles(c)

SpecFrame == Init /\ [][NextFrame]_vars

\* The adapter from its field initializers on (isInitialized = false, no
\* server yet): what its methods do before initialize has run and after.
\* The constructor itself calls initialize, which is why Init, the state
\* after construction, is initialized.
InitSetup ==
    /\ isInitialized = FALSE
    /\ servers = 0
    /\ userSocketMap = [u \in UserIds |-> NoSocket]
    /\ sock = [s \in SocketIds |-> IdleSock]
    /\ inbox = [s \in SocketIds |-> {}]
    /\ nextId = 1
    /\ bindOrder = <<>>
    /\ out = NoOut
    /\ relayUp = TRUE
    /\ posts = NoPosts
    /\ http = <<>>
    /\ registered = ServiceHandlers
    /\ handlers = DomainEventDispatcher(ServiceHandlers)

NextSetup ==
    \/ Initialize
    \/ \E s \in ServiceSocketIds : PublicConnection(s)
    \/ \E s \in ServiceSocketIds : PublicDisconnect(s)
    \/ \E s \in ServiceSocketIds : AuthMiddleware(s, SessionHeader)
    \/ \E s \in ServiceSocketIds : \E res \in ValidationResults : ValidateTokenDone(s, res)
    \/ \E s \in ServiceSocketIds : AuthConnection(s)
    \/ \E s \in ServiceSocketIds : AuthDisconnect(s)
    \/ BroadcastEUR
    \/ BroadcastUSD
    \/ \E u \in SendKeys : SendToUser(u)

SpecSetup == InitSetup /\ [][NextSetup]_vars

(***************************************************************************)
(* Vocabulary of the properties                                            *)
(***************************************************************************)
\* s ran its 'connection' handler before t ran its own.
BoundBefore(s, t) ==
    \E i, j \in 1..Len(bindOrder) : i < j /\ bindOrder[i] = s /\ bindOrder[j] = t

Bound(s) == \E i \in 1..Len(bindOrder) : bindOrder[i] = s

\* A later connection has bound the userId of s.
Superseded(s) ==
    \E t \in SocketIds : BoundBefore(s, t) /\ sock[t].userId = sock[s].userId

IsAuthLive(s) == sock[s].chan = "auth" /\ sock[s].stage = "connected"

\* This step is the close event of authenticated connection s.
IsAuthClose(s) == IsAuthLive(s) /\ sock'[s].stage = "closed"

\* The calls of the latest callback on the given ports.
CallsOn(ports) == {out.calls[i] : i \in {j \in 1..Len(out.calls) : out.calls[j].port \in ports}}

SendCalls == CallsOn({"sendToUser"})
BroadcastCalls == CallsOn({"broadcastEUR", "broadcastUSD"})

\* The names of the map's own properties (Object.keys): a socket stored
\* under __proto__ is the map's prototype, not a property of the map.
OwnKeys == {u \in DOMAIN userSocketMap \ {PrototypeKey} : userSocketMap[u] # NoSocket}

\* The map has no own property for the userId.
HasNoEntry(userId) == ToKey(userId) \notin OwnKeys

\* The socket is one of the map's own values (Object.values).
InTable(s) == \E u \in OwnKeys : userSocketMap[u] = s

\* this.userSocketMap[userId] yields socket s, as an own value or as the
\* prototype.
MapsTo(userId, s) == MapGet(userSocketMap, ToKey(userId)) = [t |-> "socket", id |-> s]

\* The lookup of some userId yields the socket.
Resolves(s) == \E u \in UserIds : MapsTo(u, s)

(***************************************************************************)
(* C1: the close event of a connection that a newer connection of the same *)
(* userId has superseded leaves the IdentityBinding table as it is; where  *)
(* the table resolved the userId to the newer connection, it still does.   *)
(***************************************************************************)
C1_StaleCloseKeepsNewerBinding ==
    [][\A s \in SocketIds :
          (IsAuthClose(s) /\ Superseded(s)) =>
              /\ userSocketMap' = userSocketMap
              /\ \A t \in SocketIds :
                    (BoundBefore(s, t) /\ userSocketMap[sock[s].userId] = t)
                        => userSocketMap'[sock[s].userId] = t]_vars

\* A superseded connection has just closed while the newer one is bound.
C1_Witness ==
    /\ out.op = "authDisconnect"
    /\ \E t \in SocketIds :
          /\ BoundBefore(out.sock, t)
          /\ sock[t].userId = out.user
          /\ IsAuthLive(t)
          /\ userSocketMap[out.user] = t

(***************************************************************************)
(* C2: every connection the IdentityBinding table maps a userId to was     *)
(* admitted with that userId and is live (its close event has not been     *)
(* processed).                                                             *)
(***************************************************************************)
C2_BindingIsLiveAndOwn ==
    \A u \in UserIds : \A s \in SocketIds :
        MapsTo(u, s) =>
            /\ sock[s].userId = u
            /\ IsAuthLive(s)
            /\ Bound(s)

(***************************************************************************)
(* C3: once a second connection is bound to a userId, no sendToUser for    *)
(* that userId reaches the first one, and while the second is live and the *)
(* latest bound to that userId every such message reaches exactly the      *)
(* second.                                                                 *)
(***************************************************************************)
C3_OnlyLatestConnectionReceives ==
    \A c \in SendCalls : \A s, t \in SocketIds :
        (BoundBefore(s, t) /\ sock[s].userId = c.to /\ sock[t].userId = c.to) =>
            /\ s \notin c.delivered
            /\ (IsAuthLive(t) /\ ~Superseded(t)) => c.delivered = {t}

\* A message was sent to a user with two live connections and reached the
\* second.
C3_Witness ==
    /\ out.op = "sendToUser"
    /\ \E s, t \in SocketIds :
          /\ BoundBefore(s, t)
          /\ IsAuthLive(s) /\ IsAuthLive(t)
          /\ sock[s].userId = sock[t].userId
          /\ \E c \in SendCalls : c.to = sock[t].userId /\ c.delivered = {t}
                                  /\ Stamp("user-specific-event", c.id) \in inbox[t]

(***************************************************************************)
(* C5: while a connection bound to userId u is live and no later           *)
(* connection has bound u, sendToUser(u, m) delivers m to exactly that     *)
(* connection, and so to no connection bound to another userId.            *)
(***************************************************************************)
C5_SendReachesTheBoundConnection ==
    \A c \in SendCalls : \A s \in SocketIds :
        (IsAuthLive(s) /\ sock[s].userId = c.to /\ ~Superseded(s)) =>
            /\ c.err = "none"
            /\ c.delivered = {s}
            /\ Stamp("user-specific-event", c.id) \in inbox[s]
            /\ \A x \in SocketIds \ {s} : Stamp("user-specific-event", c.id) \notin inbox[x]

\* A message reached its user's connection while another user was connected.
C5_Witness ==
    \E c \in SendCalls : \E s, x \in SocketIds :
        /\ c.delivered = {s}
        /\ sock[s].userId = c.to
        /\ IsAuthLive(x)
        /\ sock[x].userId # c.to

(***************************************************************************)
(* C6: a connection attempt whose validateToken result is null, or whose   *)
(* validation throws, is rejected with Unauthorized; a rejected connection *)
(* stays rejected, is never in the IdentityBinding table, and the step     *)
(* that rejects it leaves the table unchanged.                             *)
(***************************************************************************)
C6_RejectedNow ==
    (out.op = "validateTokenDone" /\ out.res \in {"null", "throw"}) =>
        /\ out.err = "Unauthorized"
        /\ sock[out.sock].stage = "rejected"

C6_RejectedStays(s) ==
    /\ (sock[s].stage = "rejected")' => (~InTable(s) /\ ~Resolves(s) /\ ~Bound(s) /\ inbox[s] = {})'
    /\ sock[s].stage = "rejected" => sock'[s].stage = "rejected"
    /\ (sock[s].stage # "rejected" /\ sock'[s].stage = "rejected")
          => userSocketMap' = userSocketMap

C6_InvalidTokenFailsClosed ==
    [][C6_RejectedNow' /\ \A s \in SocketIds : C6_RejectedStays(s)]_vars

\* The auth service threw and the connection was rejected.
C6_Witness ==
    /\ out.op = "validateTokenDone"
    /\ out.res = "throw"
    /\ out.err = "Unauthorized"
    /\ sock[out.sock].stage = "rejected"

(***************************************************************************)
(* C7: a connection attempt with no cookie header, or with cookies among   *)
(* which there is no authToken, is rejected as a missing credential; the   *)
(* connection is never in the IdentityBinding table, and the step that     *)
(* rejects it leaves the table unchanged.                                  *)
(***************************************************************************)
LacksCredential(h) ==
    ~h.present \/ \A i \in 1..Len(h.pairs) : h.pairs[i].name # "authToken"

MissingCredential == {"No cookies provided", "No authToken provided in cookies"}

C7_RejectedNow ==
    (out.op = "authMiddleware" /\ LacksCredential(out.header)) =>
        /\ out.err \in MissingCredential
        /\ ~out.header.present => out.err = "No cookies provided"
        /\ sock[out.sock].stage = "rejected"
        /\ ~InTable(out.sock)
        /\ ~Resolves(out.sock)

C7_MissingCredentialRejected ==
    [][/\ C7_RejectedNow'
       /\ (out'.op = "authMiddleware" /\ out' # out) => userSocketMap' = userSocketMap
       /\ \A s \in SocketIds :
             (sock[s].stage = "rejected" /\ sock[s].userId = NoUser)
                 => (sock'[s] = sock[s] /\ ~InTable(s)' /\ ~Resolves(s)')]_vars

\* Cookies came without an authToken and the connection was rejected.
C7_Witness ==
    /\ out.op = "authMiddleware"
    /\ out.header.present
    /\ out.header.pairs # <<>>
    /\ LacksCredential(out.header)
    /\ out.err = "No authToken provided in cookies"
    /\ sock[out.sock].stage = "rejected"

(***************************************************************************)
(* C8: sendToUser for a userId that has no entry in the IdentityBinding    *)
(* table raises no error and delivers the message to no connection, then   *)
(* or later.                                                               *)
(***************************************************************************)
C8_Dropped(c) == \A s \in SocketIds : Stamp("user-specific-event", c.id) \notin inbox[s]

C8_NoEntryIsNoOp ==
    \A c \in SendCalls :
        HasNoEntry(c.to) => (c.err = "none" /\ c.delivered = {} /\ C8_Dropped(c))

(***************************************************************************)
(* C9: broadcastEUR and broadcastUSD deliver the message to every          *)
(* connected public connection and to no authenticated connection.         *)
(***************************************************************************)
C9_BroadcastReachesPublicOnly ==
    /\ \A c \in BroadcastCalls :
          /\ c.err = "none"
          /\ c.delivered = PublicLive
          /\ \A s \in SocketIds :
                Stamp(c.port, c.id) \in inbox[s] <=> s \in PublicLive
    /\ \A s \in SocketIds :
          sock[s].chan = "auth" => \A m \in inbox[s] : m.ev = "user-specific-event"

\* A broadcast went out while a public and an authenticated connection were
\* live.
C9_Witness ==
    /\ out.op \in {"broadcastEUR", "broadcastUSD"}
    /\ \E c \in BroadcastCalls : c.delivered # {}
    /\ \E s \in SocketIds : IsAuthLive(s)

(***************************************************************************)
(* C4 as claimed: dispatch invokes every handler registered for the        *)
(* event's kind exactly once, in the order the handlers were passed in,    *)
(* and no other handler.                                                   *)
(***************************************************************************)
\* How many times handler i declares kind k.
TypeCount(i, k) ==
    Cardinality({j \in 1..Len(registered[i].eventTypes) : registered[i].eventTypes[j] = k})

\* The handlers that declare kind k, each once, in the order passed in.
RegisteredOnce(k) ==
    SelectSeq([i \in 1..Len(registered) |-> i], LAMBDA i : TypeCount(i, k) > 0)

C4_EachRegisteredHandlerOnce ==
    out.op = "dispatch" => out.invoked = RegisteredOnce(out.event.eventType)

(***************************************************************************)
(* C4 amended: dispatch invokes the handlers registered for the event's    *)
(* kind in registration order (the order they were passed in, then the     *)
(* order of their declared kinds), each once for every time the kind       *)
(* occurs among its declared kinds, up to and including the first handler  *)
(* that raises; it invokes no handler that does not declare the kind.      *)
(***************************************************************************)
\* Declarations of kind k by the handlers 1..i.
RECURSIVE CountUpTo(_, _)
CountUpTo(i, k) == IF i = 0 THEN 0 ELSE CountUpTo(i - 1, k) + TypeCount(i, k)

\* The handlers that declare kind k, each once per declaration, in the
\* order passed in.
Registrations(k) ==
    [p \in 1..CountUpTo(Len(registered), k) |->
        CHOOSE i \in 1..Len(registered) : CountUpTo(i - 1, k) < p /\ p <= CountUpTo(i, k)]

Raises(i, event) == Handle(registered[i], event, 1).err # "none"

\* q up to and including its first handler that raises on the event.
UpToFirstRaise(q, event) ==
    LET raising == {p \in 1..Len(q) : Raises(q[p], event)}
    IN  IF raising = {} THEN q
        ELSE SubSeq(q, 1, CHOOSE p \in raising : \A r \in raising : p <= r)

C4_RegisteredHandlersInOrder ==
    out.op = "dispatch" =>
        /\ out.invoked = UpToFirstRaise(Registrations(out.event.eventType), out.event)
        /\ \A p \in 1..Len(out.invoked) : TypeCount(out.invoked[p], out.event.eventType) > 0

\* Two handlers of the event's kind were invoked, in the order passed in,
\* and a third, registered for another kind only, was not.
C4_Witness ==
    /\ out.op = "dispatch"
    /\ out.err = "none"
    /\ Len(out.invoked) = 2
    /\ out.invoked[1] < out.invoked[2]
    /\ \E i \in 1..Len(registered) :
          /\ TypeCount(i, out.event.eventType) = 0
          /\ registered[i].eventTypes # <<>>

(***************************************************************************)
(* C10: processEvent rejects with 'Invalid event data' every event whose   *)
(* kind is outside the enum and every event whose payload is an empty      *)
(* sequence; no handler runs, no call is made on the delivery port or on   *)
(* the relay, and no connection receives anything.                         *)
(***************************************************************************)
OutsideEnum(e) == ~e.isNull /\ e.eventType \notin EventType

EmptySequence(e) == ~e.isNull /\ e.payload = ArrayPayload(<<>>)

C10_RejectedBeforeDispatch ==
    (out.op = "processEvent" /\ (OutsideEnum(out.event) \/ EmptySequence(out.event))) =>
        /\ out.err = "Invalid event data"
        /\ out.invoked = <<>>
        /\ out.calls = <<>>

C10_InvalidEventRejected ==
    [][/\ C10_RejectedBeforeDispatch'
       /\ (out' # out /\ out'.op = "processEvent" /\ out'.err = "Invalid event data")
             => (inbox' = inbox /\ nextId' = nextId)]_vars

\* An EUR update with an empty payload was rejected while a public
\* connection was live.
C10_Witness ==
    /\ out.op = "processEvent"
    /\ out.event = MkEvent("CRYPTO_UPDATE_EUR", ArrayPayload(<<>>))
    /\ out.err = "Invalid event data"
    /\ PublicLive # {}

(***************************************************************************)
(* C11: dispatch of an event whose kind no registered handler declares     *)
(* (its list is absent or empty) fails with 'No handler found for event    *)
(* type', which reaches the caller; no handler is invoked and no call is   *)
(* made on a port.                                                         *)
(***************************************************************************)
NoHandlerDeclares(k) == \A i \in 1..Len(registered) : TypeCount(i, k) = 0

C11_NoHandlerForKind ==
    (out.op = "dispatch" /\ NoHandlerDeclares(out.event.eventType)) =>
        /\ out.err = "No handler found for event type"
        /\ out.invoked = <<>>
        /\ out.calls = <<>>
        /\ \A s \in SocketIds : inbox[s] = {}

\* Handlers are registered, none of them for the kind of the event that was
\* dispatched.
C11_Witness ==
    /\ out.op = "dispatch"
    /\ out.event.eventType \in EventType
    /\ registered # <<>>
    /\ \E i \in 1..Len(registered) : registered[i].eventTypes # <<>>
    /\ NoHandlerDeclares(out.event.eventType)
    /\ out.err = "No handler found for event type"

(***************************************************************************)
(* C12: for a CRYPTO_UPDATE_EUR event (its payload a non-empty sequence of *)
(* price records) the Crypto-Update Handler makes exactly one broadcast,   *)
(* on broadcastEUR, none on broadcastUSD, no sendToUser, and one relay     *)
(* call tagged 'eur'; for a CRYPTO_UPDATE_USD event, exactly one           *)
(* broadcastUSD, no broadcastEUR, no sendToUser, and one relay call tagged *)
(* 'usd'.                                                                  *)
(***************************************************************************)
\* The payload is a non-empty sequence of records.
RecordSequence(e) ==
    /\ ~e.isNull
    /\ e.payload.t = "array"
    /\ Len(e.payload.items) > 0
    /\ \A i \in 1..Len(e.payload.items) : e.payload.items[i] # NullItem

\* How many calls the latest callback made on the port.
PortCount(port) == Cardinality({j \in 1..Len(out.calls) : out.calls[j].port = port})

RelayCalls == CallsOn({"sendNotification"})

C12_OneBroadcastOnTheCurrencyChannel ==
    \A v \in {[kind |-> "CRYPTO_UPDATE_EUR", own |-> "broadcastEUR",
                other |-> "broadcastUSD", tag |-> "eur"],
               [kind |-> "CRYPTO_UPDATE_USD", own |-> "broadcastUSD",
                other |-> "broadcastEUR", tag |-> "usd"]} :
        (/\ out.op = "processEvent"
         /\ out.event.eventType = v.kind
         /\ RecordSequence(out.event)) =>
            /\ PortCount(v.own) = 1
            /\ PortCount(v.other) = 0
            /\ PortCount("sendToUser") = 0
            /\ PortCount("sendNotification") = 1
            /\ \A c \in RelayCalls : c.to = v.tag
            /\ out.calls[1].port = v.own

\* A USD update went out to a live public connection and to the relay.
C12_Witness ==
    /\ out.op = "processEvent"
    /\ out.event.eventType = "CRYPTO_UPDATE_USD"
    /\ RecordSequence(out.event)
    /\ \E c \in BroadcastCalls : c.port = "broadcastUSD" /\ c.delivered # {}
    /\ \E c \in RelayCalls : c.to = "usd"

(***************************************************************************)
(* C13: a failure of the relay call of the Crypto-Update Handler is        *)
(* swallowed. Whether the notification service is up or down when the call *)
(* is made, processEvent (so dispatch and handle) ends without an error    *)
(* and the broadcast of the event has reached every live public            *)
(* connection; when the POST fails later, nothing is thrown and nothing    *)
(* that was delivered is taken back.                                       *)
(***************************************************************************)
RelayFailed == out.op = "postSettles" /\ out.res = "failed"

C13_BroadcastStands ==
    (out.op = "processEvent" /\ RelayCalls # {}) =>
        /\ out.err = "none"
        /\ \E b \in BroadcastCalls :
              /\ b.err = "none"
              /\ b.delivered = PublicLive
              /\ \A s \in PublicLive : Stamp(b.port, b.id) \in inbox[s]

C13_RelayFailureIsSwallowed ==
    [][/\ C13_BroadcastStands'
       /\ RelayFailed' => (out'.err = "none" /\ inbox' = inbox)
       /\ \A s \in SocketIds : inbox[s] \subseteq inbox'[s]]_vars

\* The POST of an update failed after the update had reached a public
\* connection, which still has it.
C13_Witness ==
    /\ RelayFailed
    /\ \E s \in PublicLive : \E m \in inbox[s] : m.ev \in {"broadcastEUR", "broadcastUSD"}

(***************************************************************************)
(* C14: for a USER_NOTIFICATION event the User-Notification Handler calls  *)
(* sendToUser exactly once, addressed to the userId of the payload, and    *)
(* makes no broadcast and no relay call.                                   *)
(***************************************************************************)
\* processEvent passed the event on to dispatch.
Dispatched(e) == isValidEventData(e) = "true"

\* payload.userId: undefined when the payload has no such field.
PayloadUserId(p) == IF p.t = "object" THEN p.obj.userId ELSE Undefined

C14_OneSendToThePayloadUser ==
    (/\ out.op = "processEvent"
     /\ Dispatched(out.event)
     /\ out.event.eventType = "USER_NOTIFICATION") =>
        /\ Len(out.calls) = 1
        /\ out.calls[1].port = "sendToUser"
        /\ out.calls[1].to = PayloadUserId(out.event.payload)
        /\ BroadcastCalls = {}
        /\ RelayCalls = {}
        /\ \A s \in SocketIds :
              Stamp("user-specific-event", out.calls[1].id) \in inbox[s]
                  => sock[s].userId = out.calls[1].to

\* A notification reached the connection of the user named in its payload.
C14_Witness ==
    /\ out.op = "processEvent"
    /\ out.event.eventType = "USER_NOTIFICATION"
    /\ out.event.payload.t = "object"
    /\ \E c \in SendCalls : \E s \in SocketIds :
          /\ c.to = out.event.payload.obj.userId
          /\ c.delivered = {s}
          /\ sock[s].userId = c.to

(***************************************************************************)
(* C15: whenever the payload of a USER_NOTIFICATION event carries a        *)
(* message field, the message passed to sendToUser is exactly that string; *)
(* the synthesized text is passed only when the payload carries none.      *)
(***************************************************************************)
CarriesMessage(p) == p.t = "object" /\ p.obj.message # Undefined

C15_MessageVerbatim ==
    (/\ out.op = "processEvent"
     /\ Dispatched(out.event)
     /\ out.event.eventType = "USER_NOTIFICATION") =>
        \A c \in SendCalls :
            IF CarriesMessage(out.event.payload)
                THEN c.msg.text = <<out.event.payload.obj.message>>
                ELSE Len(c.msg.text) > 1

(***************************************************************************)
(* C16: a delivery call (broadcastEUR, broadcastUSD, sendToUser) made      *)
(* before initialize has run is rejected with 'SocketIOAdapter not         *)
(* initialized' and delivers nothing.                                      *)
(***************************************************************************)
DeliveryOps == {"broadcastEUR", "broadcastUSD", "sendToUser"}

NotInitialized == "SocketIOAdapter not initialized"

C16_RejectedBeforeSetup ==
    (out.op \in DeliveryOps /\ ~isInitialized) =>
        /\ out.err = NotInitialized
        /\ \A c \in CallsOn(DeliveryOps) : c.err = NotInitialized /\ c.delivered = {}
        /\ \A s \in SocketIds : inbox[s] = {}

\* Two delivery calls were made before setup, the second a sendToUser, and
\* both were rejected.
C16_Witness ==
    /\ ~isInitialized
    /\ servers = 0
    /\ out.op = "sendToUser"
    /\ out.err = NotInitialized
    /\ nextId = 3

(***************************************************************************)
(* C17: a call of initialize on an adapter that is already initialized     *)
(* raises no error, opens no further server (so installs no further        *)
(* middleware or connection handler), and leaves the IdentityBinding       *)
(* table, the connections and what they have received unchanged.           *)
(***************************************************************************)
C17_InitializeIsIdempotent ==
    [][(isInitialized /\ out'.op = "initialize") =>
          /\ out'.err = "none"
          /\ isInitialized'
          /\ servers' = servers
          /\ userSocketMap' = userSocketMap
          /\ sock' = sock
          /\ inbox' = inbox
          /\ bindOrder' = bindOrder
          /\ handlers' = handlers]_vars

\* initialize was called again while a public connection and a bound
\* authenticated connection were live.
C17_Witness ==
    /\ out.op = "initialize"
    /\ servers = 2
    /\ PublicLive # {}
    /\ \E u \in UserIds : userSocketMap[u] # NoSocket /\ IsAuthLive(userSocketMap[u])

(***************************************************************************)
(* C18: for a crypto-update event (its payload a non-empty sequence of     *)
(* price records) the payload of the broadcast message is the event's      *)
(* payload itself, the same records in the same order, and the payload of  *)
(* the relay message has one record per input record, in the same order,   *)
(* with exactly the fields id, symbol and price, each with the value the   *)
(* input record has for it.                                                *)
(***************************************************************************)
RelayFields == {"id", "symbol", "price"}

\* The value record r has for field f: undefined when it has none.
ValueOf(r, f) == IF f \in DOMAIN r THEN r[f] ELSE Undefined

IsProjectionOf(relayed, items) ==
    /\ relayed.t = "array"
    /\ Len(relayed.items) = Len(items)
    /\ \A i \in 1..Len(items) :
          /\ DOMAIN relayed.items[i] = RelayFields
          /\ \A f \in RelayFields : relayed.items[i][f] = ValueOf(items[i], f)

C18_PayloadVerbatimAndProjected ==
    (/\ out.op = "processEvent"
     /\ out.event.eventType \in {"CRYPTO_UPDATE_EUR", "CRYPTO_UPDATE_USD"}
     /\ RecordSequence(out.event)) =>
        /\ BroadcastCalls # {}
        /\ RelayCalls # {}
        /\ \A b \in BroadcastCalls : b.msg.payload = out.event.payload
        /\ \A r \in RelayCalls : IsProjectionOf(r.msg.payload, out.event.payload.items)

\* An update of two records, each with more fields than the relay keeps,
\* went out to a live public connection and to the relay.
C18_Witness ==
    /\ out.op = "processEvent"
    /\ out.event.eventType = "CRYPTO_UPDATE_EUR"
    /\ out.event.payload = ArrayPayload(<<Ethereum, Bitcoin>>)
    /\ \E b \in BroadcastCalls : b.delivered # {}
    /\ \E r \in RelayCalls : Len(r.msg.payload.items) = 2

(***************************************************************************)
(* C19: the close event of a connection that the IdentityBinding table     *)
(* still maps its userId to removes that entry and no other; a sendToUser  *)
(* for a userId whose entry has been removed reaches no connection, until  *)
(* a new connection binds the userId.                                      *)
(***************************************************************************)
C19_SendFindsNobody ==
    \A c \in SendCalls :
        (\A s \in SocketIds : ~MapsTo(c.to, s)) => (c.delivered = {} /\ C8_Dropped(c))

C19_CloseRemovesOwnEntry ==
    [][/\ \A s \in SocketIds :
             (IsAuthClose(s) /\ MapsTo(sock[s].userId, s)) =>
                 /\ \A t \in SocketIds : ~MapsTo(sock[s].userId, t)'
                 /\ \A u \in UserIds \ {sock[s].userId} :
                       userSocketMap'[u] = userSocketMap[u]
       /\ C19_SendFindsNobody']_vars

(***************************************************************************)
(* C20: a sendToUser for a userId that races the disconnect of the         *)
(* connection bound to that userId either runs before the close event and  *)
(* is delivered to that connection, or runs after it and is delivered to   *)
(* nobody; no error surfaces in either order.                              *)
(***************************************************************************)
C20_DeliveredOrDroppedNoError ==
    \A c \in SendCalls : \A s \in SocketIds :
        (Bound(s) /\ sock[s].userId = c.to /\ ~Superseded(s)) =>
            /\ c.err = "none"
            /\ IsAuthLive(s) => c.delivered = {s}
            /\ ~IsAuthLive(s) => c.delivered = {}

(***************************************************************************)
(* C21: when a handler raises while an event is dispatched, dispatch ends  *)
(* with that same error, and so does the processEvent call that            *)
(* dispatched the event.                                                   *)
(***************************************************************************)
\* The error handler i raises on the event ("none" when it returns).
ErrorOf(i, event) == Handle(registered[i], event, 1).err

C21_HandlerErrorPropagates ==
    (/\ out.op \in {"processEvent", "dispatch"}
     /\ out.invoked # <<>>) =>
        LET last == out.invoked[Len(out.invoked)]
        IN  /\ out.err = ErrorOf(last, out.event)
            /\ (\E p \in 1..Len(out.invoked) : Raises(out.invoked[p], out.event))
                   => out.err # "none"

\* A handler raised on an event that passed validation, and processEvent
\* ended with the handler's error.
C21_Witness ==
    /\ out.op = "processEvent"
    /\ Dispatched(out.event)
    /\ out.invoked # <<>>
    /\ Raises(out.invoked[1], out.event)
    /\ out.err = ErrorOf(out.invoked[1], out.event)
    /\ out.err \notin {"none", "Invalid event data", "No handler found for event type"}

(***************************************************************************)
(* C22: the close event of a connection bound to userId u leaves the       *)
(* IdentityBinding entry of every other userId as it is, and the userId a  *)
(* connection was given at admission never changes afterwards.             *)
(***************************************************************************)
C22_CloseLeavesOtherUsersAlone ==
    [][\A s \in SocketIds :
          /\ IsAuthClose(s) =>
                \A v \in UserIds \ {sock[s].userId} : userSocketMap'[v] = userSocketMap[v]
          /\ sock[s].userId # NoUser => sock'[s].userId = sock[s].userId]_vars

\* A connection closed while another user's connection was bound and live.
C22_Witness ==
    /\ out.op = "authDisconnect"
    /\ \E v \in UserIds \ {out.user} :
          /\ userSocketMap[v] # NoSocket
          /\ IsAuthLive(userSocketMap[v])

(***************************************************************************)
(* C23: the mapping from kind to handler list is the one the constructor   *)
(* built from the handlers it was given, and no dispatch changes it,       *)
(* whether the dispatch succeeds, fails with NoHandlerForKind or ends in a *)
(* handler's error: every dispatch sees the same lists in the same order.  *)
(***************************************************************************)
C23_HandlerListsFixed ==
    [][/\ handlers = DomainEventDispatcher(registered)
       /\ handlers' = handlers
       /\ registered' = registered]_vars

\* A dispatch to a kind with two registrations ended in a handler's error,
\* and the lists are still the ones the constructor built.
C23_Witness ==
    /\ out.op = "dispatch"
    /\ out.err = "HandlerError"
    /\ Len(Registrations(out.event.eventType)) >= 2
    /\ handlers[out.event.eventType] = Registrations(out.event.eventType)

(***************************************************************************)
(* C24: a notifyUser submission whose body has no userId is answered with  *)
(* HTTP 400 and goes no further: processEvent is not invoked, so no        *)
(* handler runs and nothing is sent to a user or broadcast. A request with *)
(* no parsed body does not get further either.                             *)
(***************************************************************************)
C24_NoUserIdRejected ==
    (/\ out.op = "notifyUser"
     /\ (out.user = NoUser \/ Falsy(out.user))) =>
        /\ Falsy(out.user) => out.status = "400"
        /\ out.event = NoEvent
        /\ out.invoked = <<>>
        /\ out.calls = <<>>

\* A body without userId was answered with 400 while a user's connection was
\* bound and live.
C24_Witness ==
    /\ out.op = "notifyUser"
    /\ out.user = Undefined
    /\ out.status = "400"
    /\ \E u \in UserIds : userSocketMap[u] # NoSocket /\ IsAuthLive(userSocketMap[u])

(***************************************************************************)
(* C25: when two authentication attempts for the same userId overlap, the  *)
(* IdentityBinding entry points at the connection whose connection event   *)
(* was processed last (no later one of the userId having followed),        *)
(* whichever of the two began its handshake first.                         *)
(***************************************************************************)
C25_LastConnectionEventWins ==
    \A s, t \in SocketIds :
        (/\ BoundBefore(s, t)
         /\ sock[s].userId = sock[t].userId
         /\ ~Superseded(t)
         /\ IsAuthLive(t)) => userSocketMap[sock[t].userId] = t

\* Connection t began its handshake before s, its validation was still
\* pending when s was admitted and bound, and the entry points at t, whose
\* connection event came last; both connections are live.
C25_Witness ==
    \E s, t \in SocketIds :
        /\ t < s
        /\ BoundBefore(s, t)
        /\ sock[s].userId = sock[t].userId
        /\ IsAuthLive(s)
        /\ IsAuthLive(t)
        /\ userSocketMap[sock[t].userId] = t

(***************************************************************************)
(* C26: once the connection bound last for userId u has closed, the table  *)
(* holds no entry for u, even while an older, superseded connection of u   *)
(* is still live: the older connection is not bound again, and a           *)
(* sendToUser for u delivers to no connection.                             *)
(***************************************************************************)
\* The connection bound last for userId u has closed.
LatestClosed(u) ==
    \E t \in SocketIds :
        /\ Bound(t)
        /\ sock[t].userId = u
        /\ ~Superseded(t)
        /\ sock[t].stage = "closed"

C26_NoFallbackToOlderConnection ==
    \A u \in UserIds :
        LatestClosed(u) =>
            /\ \A s \in SocketIds : ~MapsTo(u, s)
            /\ \A c \in SendCalls : c.to = u => c.delivered = {}

(***************************************************************************)
(* C27: when the i-th handler registered for the event's kind raises, the  *)
(* handlers registered before it have each been invoked once, in order,    *)
(* and no handler registered after it is invoked for that dispatch.        *)
(***************************************************************************)
\* Position p is the first in q whose handler raises on the event.
FirstRaiseAt(q, p, event) ==
    /\ Raises(q[p], event)
    /\ \A r \in 1..(p - 1) : ~Raises(q[r], event)

C27_RaiseCutsTheRun ==
    out.op = "dispatch" =>
        LET q == Registrations(out.event.eventType)
        IN  \A p \in 1..Len(q) :
                FirstRaiseAt(q, p, out.event) =>
                    /\ Len(out.invoked) = p
                    /\ \A r \in 1..p : out.invoked[r] = q[r]
                    /\ out.err = ErrorOf(q[p], out.event)

\* Three handlers are registered for the kind, the second raised: the first
\* two were invoked and the third was not.
C27_Witness ==
    /\ out.op = "dispatch"
    /\ LET q == Registrations(out.event.eventType)
       IN  /\ Len(q) = 3
           /\ FirstRaiseAt(q, 2, out.event)
           /\ out.invoked = <<q[1], q[2]>>
           /\ q[3] \notin {q[1], q[2]}

(***************************************************************************)
(* C28: a handler whose declared kinds name the same kind k times is in    *)
(* that kind's list k times, and a dispatch of the kind in which no        *)
(* handler raises invokes it k times: registrations are not de-duplicated. *)
(***************************************************************************)
\* How many times handler i occurs in the sequence q.
Occurrences(i, q) == Cardinality({p \in 1..Len(q) : q[p] = i})

C28_DuplicateKindsRegisterTwice ==
    \A i \in 1..Len(registered) :
        /\ \A k \in EventType : Occurrences(i, handlers[k]) = TypeCount(i, k)
        /\ (out.op = "dispatch" /\ out.err = "none") =>
              Occurrences(i, out.invoked) = TypeCount(i, out.event.eventType)

\* A handler that declares the dispatched kind twice was invoked twice.
C28_Witness ==
    /\ out.op = "dispatch"
    /\ out.err = "none"
    /\ \E i \in 1..Len(registered) :
          /\ TypeCount(i, out.event.eventType) = 2
          /\ Occurrences(i, out.invoked) = 2

(***************************************************************************)
(* C29: through processEvent the NoHandlerForKind failure cannot happen:   *)
(* every kind that validation accepts has at least one handler registered  *)
(* by the EventService constructor, so an accepted event always reaches a  *)
(* handler.                                                                *)
(***************************************************************************)
C29_EveryAcceptedKindHasAHandler ==
    /\ \A k \in EventType : Len(HandlersGet(handlers, k)) > 0
    /\ out.op = "processEvent" =>
          /\ out.err # "No handler found for event type"
          /\ Dispatched(out.event) => out.invoked # <<>>

\* A user-notification event passed validation and reached its handler.
C29_Witness ==
    /\ out.op = "processEvent"
    /\ Dispatched(out.event)
    /\ out.event.eventType = "USER_NOTIFICATION"
    /\ out.invoked = <<2>>
    /\ registered[2] = UserNotificationHandler

(***************************************************************************)
(* C30: the constructor runs setup itself, so the adapter is initialized   *)
(* in every state in which a delivery call can reach it and never becomes  *)
(* uninitialized again: no delivery call fails with NotInitialized.        *)
(***************************************************************************)
C30_ConstructedMeansInitialized ==
    /\ isInitialized
    /\ servers = 2
    /\ out.op \in DeliveryOps =>
          /\ out.err # NotInitialized
          /\ \A c \in CallsOn(DeliveryOps) : c.err # NotInitialized

\* The first call made on the adapter was a sendToUser, and it was delivered.
C30_Witness ==
    /\ out.op = "sendToUser"
    /\ out.err = "none"
    /\ nextId = 2
    /\ \E c \in SendCalls : c.delivered # {}

(***************************************************************************)
(* C31: the Crypto-Update Handler builds its two messages before it makes  *)
(* any output and broadcasts before it calls the relay. For a crypto-      *)
(* update event that passed validation but whose payload is not a sequence *)
(* of records, handle raises and neither a broadcast nor a relay call has  *)
(* been made; for a sequence of records, every relay call of the event     *)
(* comes after a broadcast of it and no broadcast comes after a relay call.*)
(***************************************************************************)
CryptoKinds == {"CRYPTO_UPDATE_EUR", "CRYPTO_UPDATE_USD"}

IsBroadcast(c) == c.port \in {"broadcastEUR", "broadcastUSD"}

IsRelay(c) == c.port = "sendNotification"

C31_BuildThenBroadcastThenRelay ==
    (/\ out.op = "processEvent"
     /\ Dispatched(out.event)
     /\ out.event.eventType \in CryptoKinds) =>
        IF ~RecordSequence(out.event)
            THEN /\ out.err \notin {"none", "Invalid event data",
                                   "No handler found for event type"}
                 /\ out.invoked = <<1>>
                 /\ out.calls = <<>>
            ELSE \A i \in 1..Len(out.calls) :
                    /\ IsRelay(out.calls[i]) =>
                          \E j \in 1..(i - 1) : IsBroadcast(out.calls[j])
                    /\ IsBroadcast(out.calls[i]) =>
                          \A j \in 1..(i - 1) : ~IsRelay(out.calls[j])

\* An update whose payload is a non-empty string passed validation and made
\* handle raise, while a public connection was live to receive a broadcast.
C31_Witness ==
    /\ out.op = "processEvent"
    /\ Dispatched(out.event)
    /\ out.event.eventType = "CRYPTO_UPDATE_EUR"
    /\ out.event.payload.t = "string"
    /\ out.err = "TypeError: payload.map"
    /\ out.calls = <<>>
    /\ PublicLive # {}

(***************************************************************************)
(* C32: the IdentityBinding table changes only in the connection event and *)
(* the close event of an authenticated connection. broadcastEUR,           *)
(* broadcastUSD, sendToUser, dispatch, initialize, an admission (rejected  *)
(* or passed on to the connection event) and the connect and disconnect of *)
(* a public connection all leave it as it is.                              *)
(***************************************************************************)
\* This step is the connection event of authenticated connection s.
IsAuthConnect(s) == ~IsAuthLive(s) /\ IsAuthLive(s)' /\ sock[s].stage # "closed"

TableFrameOps ==
    {"broadcastEUR", "broadcastUSD", "sendToUser", "dispatch", "initialize",
     "authMiddleware", "validateTokenDone", "publicConnection", "publicDisconnect"}

C32_TableChangesOnlyOnAuthConnectAndClose ==
    [][/\ userSocketMap' # userSocketMap =>
             \E s \in SocketIds : IsAuthConnect(s) \/ IsAuthClose(s)
       /\ out'.op \in TableFrameOps => userSocketMap' = userSocketMap]_vars

\* A sendToUser was delivered to a bound user after another connection's
\* admission was rejected, and the entry is still there.
C32_Witness ==
    /\ out.op = "sendToUser"
    /\ \E c \in SendCalls :
          /\ c.delivered # {}
          /\ userSocketMap[c.to] \in c.delivered
    /\ \E s \in SocketIds : sock[s].stage = "rejected"
====
